---- MODULE Spec2Model ----
(***************************************************************************)
(* Model of script.py, the generator of the Postman collection, the two    *)
(* environments and the README of the Component Store API.                 *)
(*                                                                         *)
(* The composers (create_postman_collection, create_test_environments,     *)
(* generate_readme) are operators over the literal catalog of the source.  *)
(* main is a state machine: one action per statement of main that reads    *)
(* the clock, consumes entropy, touches the file system or prints.         *)
(*                                                                         *)
(* Of each request descriptor the model keeps name, method, url, the       *)
(* optional auth override and the optional event scripts.  header, body,   *)
(* description and response are literals that no property below reads.     *)
(* Strings are ASCII: the glyph that opens each folder name and the        *)
(* accented letters of the texts are left out.                             *)
(***************************************************************************)
EXTENDS Integers, Sequences, FiniteSets, TLC

(***************************************************************************)
(* Bounds of the model.                                                    *)
(***************************************************************************)
\* runs of main that share the working directory
MaxRuns == 2
\* clock instants 0..MaxClock, in half seconds
MaxClock == 2
\* clock instants per second; strftime("%Y%m%d_%H%M%S") keeps whole seconds
TicksPerSecond == 2

Digits == <<"0", "1", "2", "3", "4", "5", "6", "7", "8", "9">>

\* A document-valued local of main that is not bound yet
Unbound == [unbound |-> TRUE]

(***************************************************************************)
(* The request catalog, one definition per request descriptor.             *)
(***************************************************************************)
RegisterUser ==
  [name |-> "Register User",
   request |-> [method |-> "POST",
                url |-> [raw |-> "{{base_url}}/api/users/register",
                         host |-> <<"{{base_url}}">>,
                         path |-> <<"api", "users", "register">>]],
   event |-> <<[listen |-> "test",
                script |-> [exec |-> <<
                  "if (pm.response.code === 200) {",
                  "    const response = pm.response.json();",
                  "    pm.test('User registered successfully', function() {",
                  "        pm.expect(response).to.have.property('id');",
                  "        pm.expect(response).to.have.property('email');",
                  "    });",
                  "}">>]]>>]

\* faulty variant of LoginUser: the script sets a variable of another name
LoginUser_WrongVariable ==
  [name |-> "Login User",
   request |-> [method |-> "POST",
                url |-> [raw |-> "{{base_url}}/api/users/login",
                         host |-> <<"{{base_url}}">>,
                         path |-> <<"api", "users", "login">>]],
   event |-> <<[listen |-> "test",
                script |-> [exec |-> <<
                  "if (pm.response.code === 200) {",
                  "    const response = pm.response.json();",
                  "    pm.test('Login successful', function() {",
                  "        pm.expect(response).to.have.property('token');",
                  "    });",
                  "    // Guardar token para otras requests",
                  "    pm.collectionVariables.set('authToken', response.token);",
                  "}">>]]>>]

LoginUser ==
  [name |-> "Login User",
   request |-> [method |-> "POST",
                url |-> [raw |-> "{{base_url}}/api/users/login",
                         host |-> <<"{{base_url}}">>,
                         path |-> <<"api", "users", "login">>]],
   event |-> <<[listen |-> "test",
                script |-> [exec |-> <<
                  "if (pm.response.code === 200) {",
                  "    const response = pm.response.json();",
                  "    pm.test('Login successful', function() {",
                  "        pm.expect(response).to.have.property('token');",
                  "    });",
                  "    // Guardar token para otras requests",
                  "    pm.collectionVariables.set('auth_token', response.token);",
                  "}">>]]>>]

GetAllComponents ==
  [name |-> "Get All Components",
   request |-> [method |-> "GET",
                url |-> [raw |-> "{{base_url}}/api/components",
                         host |-> <<"{{base_url}}">>,
                         path |-> <<"api", "components">>]]]

GetComponentsByType ==
  [name |-> "Get Components by Type",
   request |-> [method |-> "GET",
                url |-> [raw |-> "{{base_url}}/api/components?type=button",
                         host |-> <<"{{base_url}}">>,
                         path |-> <<"api", "components">>,
                         query |-> <<[key |-> "type", value |-> "button"]>>]]]

GetComponentsByTypePath ==
  [name |-> "Get Components by Type (Path)",
   request |-> [method |-> "GET",
                url |-> [raw |-> "{{base_url}}/api/components/type/button",
                         host |-> <<"{{base_url}}">>,
                         path |-> <<"api", "components", "type", "button">>]]]

CreateComponent ==
  [name |-> "Create Component",
   request |-> [auth |-> [type |-> "noauth"],
                method |-> "POST",
                url |-> [raw |-> "{{base_url}}/api/components",
                         host |-> <<"{{base_url}}">>,
                         path |-> <<"api", "components">>]]]

GetSpecificComponent ==
  [name |-> "Get Specific Component",
   request |-> [auth |-> [type |-> "noauth"],
                method |-> "GET",
                url |-> [raw |-> "{{base_url}}/api/components/custom-button-1",
                         host |-> <<"{{base_url}}">>,
                         path |-> <<"api", "components", "custom-button-1">>]]]

GetUserAccessInfo ==
  [name |-> "Get User Access Info",
   request |-> [auth |-> [type |-> "noauth"],
                method |-> "GET",
                url |-> [raw |-> "{{base_url}}/api/components/user/access-info",
                         host |-> <<"{{base_url}}">>,
                         path |-> <<"api", "components", "user", "access-info">>]]]

GetPricingInfo ==
  [name |-> "Get Pricing Info",
   request |-> [method |-> "GET",
                url |-> [raw |-> "{{base_url}}/api/payment/pricing-info",
                         host |-> <<"{{base_url}}">>,
                         path |-> <<"api", "payment", "pricing-info">>]]]

CreateComponentDonationOrder ==
  [name |-> "Create Component Donation Order",
   request |-> [auth |-> [type |-> "noauth"],
                method |-> "POST",
                url |-> [raw |-> "{{base_url}}/api/payment/create-order",
                         host |-> <<"{{base_url}}">>,
                         path |-> <<"api", "payment", "create-order">>]]]

CreatePremiumUpgradeOrder ==
  [name |-> "Create Premium Upgrade Order",
   request |-> [auth |-> [type |-> "noauth"],
                method |-> "POST",
                url |-> [raw |-> "{{base_url}}/api/payment/create-order",
                         host |-> <<"{{base_url}}">>,
                         path |-> <<"api", "payment", "create-order">>]]]

CaptureOrderQuery ==
  <<[key |-> "token", value |-> "PAYPAL_TOKEN"],
    [key |-> "componentId", value |-> "custom-button-1"],
    [key |-> "userId", value |-> "USER_ID"],
    [key |-> "amount", value |-> "25.50"],
    [key |-> "isPremiumUpgrade", value |-> "false"]>>

\* faulty variant of CaptureOrder: raw lists the parameters in another order
CaptureOrder_QueryReordered ==
  [name |-> "Capture Order (Webhook)",
   request |-> [method |-> "GET",
                url |-> [raw |-> "{{base_url}}/api/payment/capture-order?token=PAYPAL_TOKEN&userId=USER_ID&componentId=custom-button-1&amount=25.50&isPremiumUpgrade=false",
                         host |-> <<"{{base_url}}">>,
                         path |-> <<"api", "payment", "capture-order">>,
                         query |-> CaptureOrderQuery]]]

CaptureOrder ==
  [name |-> "Capture Order (Webhook)",
   request |-> [method |-> "GET",
                url |-> [raw |-> "{{base_url}}/api/payment/capture-order?token=PAYPAL_TOKEN&componentId=custom-button-1&userId=USER_ID&amount=25.50&isPremiumUpgrade=false",
                         host |-> <<"{{base_url}}">>,
                         path |-> <<"api", "payment", "capture-order">>,
                         query |-> CaptureOrderQuery]]]

CancelOrder ==
  [name |-> "Cancel Order (Webhook)",
   request |-> [method |-> "GET",
                url |-> [raw |-> "{{base_url}}/api/payment/cancel-order",
                         host |-> <<"{{base_url}}">>,
                         path |-> <<"api", "payment", "cancel-order">>]]]

ApiDocumentation ==
  [name |-> "API Documentation",
   request |-> [method |-> "GET",
                url |-> [raw |-> "{{base_url}}/api-docs",
                         host |-> <<"{{base_url}}">>,
                         path |-> <<"api-docs">>]]]

HealthCheck ==
  [name |-> "Health Check",
   request |-> [method |-> "GET",
                url |-> [raw |-> "{{base_url}}/",
                         host |-> <<"{{base_url}}">>,
                         path |-> <<"">>]]]

TestFlow ==
  [name |-> "Test Flow - Complete User Journey",
   request |-> [method |-> "GET",
                url |-> [raw |-> "{{base_url}}/api/components",
                         host |-> <<"{{base_url}}">>,
                         path |-> <<"api", "components">>]],
   event |-> <<[listen |-> "prerequest",
                script |-> [exec |-> <<
                  "// Test Flow Script",
                  "console.log('=== COMPLETE USER JOURNEY TEST ===');",
                  "console.log('1. Register user');",
                  "console.log('2. Login user');",
                  "console.log('3. Get components');",
                  "console.log('4. Try to access premium component');",
                  "console.log('5. Create payment order');",
                  "console.log('6. Check user access after payment');",
                  "console.log('=====================================');">>]]>>]

(***************************************************************************)
(* The folders.                                                            *)
(***************************************************************************)
create_auth_folder ==
  [name |-> "Authentication",
   item |-> <<RegisterUser, LoginUser>>]

create_components_folder ==
  [name |-> "Components",
   item |-> <<GetAllComponents, GetComponentsByType, GetComponentsByTypePath,
              CreateComponent, GetSpecificComponent, GetUserAccessInfo>>]

create_payments_folder ==
  [name |-> "Payments",
   item |-> <<GetPricingInfo, CreateComponentDonationOrder,
              CreatePremiumUpgradeOrder, CaptureOrder, CancelOrder>>]

\* faulty variant of create_utility_folder: Login User is listed again
create_utility_folder_WithLogin ==
  [name |-> "Utilities & Testing",
   item |-> <<ApiDocumentation, HealthCheck, TestFlow, LoginUser>>]

create_utility_folder ==
  [name |-> "Utilities & Testing",
   item |-> <<ApiDocumentation, HealthCheck, TestFlow>>]

(***************************************************************************)
(* Identifiers and composers.  uuid.uuid4() draws 122 random bits; the     *)
(* model takes every draw to differ from all earlier ones and names it by  *)
(* its position e in the sequence of draws.                                *)
(***************************************************************************)
generate_uuid(e) == "00000000-0000-4000-8000-00000000000" \o Digits[e + 1]

create_postman_collection(e) ==
  [info |-> [_postman_id |-> generate_uuid(e),
             name |-> "Component Store API",
             schema |-> "https://schema.getpostman.com/json/collection/v2.1.0/collection.json"],
   item |-> <<create_auth_folder, create_components_folder,
              create_payments_folder, create_utility_folder>>,
   variable |-> <<[key |-> "base_url", value |-> "http://localhost:3000", type |-> "string"],
                  [key |-> "auth_token", value |-> "", type |-> "string"]>>,
   auth |-> [type |-> "bearer",
             bearer |-> <<[key |-> "token", value |-> "{{auth_token}}", type |-> "string"]>>]]

\* faulty variant of create_test_environments: production keeps test_password
create_test_environments_Leaky(e1, e2) ==
  <<[key |-> "development",
     value |-> [id |-> generate_uuid(e1),
                name |-> "Development Environment",
                values |-> <<[key |-> "base_url", value |-> "http://localhost:3000", enabled |-> TRUE],
                             [key |-> "auth_token", value |-> "", enabled |-> TRUE],
                             [key |-> "test_email", value |-> "test@example.com", enabled |-> TRUE],
                             [key |-> "test_password", value |-> "testpassword123", enabled |-> TRUE]>>]],
    [key |-> "production",
     value |-> [id |-> generate_uuid(e2),
                name |-> "Production Environment",
                values |-> <<[key |-> "base_url", value |-> "https://your-production-url.com", enabled |-> TRUE],
                             [key |-> "auth_token", value |-> "", enabled |-> TRUE],
                             [key |-> "test_password", value |-> "testpassword123", enabled |-> TRUE]>>]]>>

\* faulty variant of create_test_environments: auth_token starts with a value
\* drawn per run
create_test_environments_RandomToken(e1, e2) ==
  <<[key |-> "development",
     value |-> [id |-> generate_uuid(e1),
                name |-> "Development Environment",
                values |-> <<[key |-> "base_url", value |-> "http://localhost:3000", enabled |-> TRUE],
                             [key |-> "auth_token", value |-> generate_uuid(e1), enabled |-> TRUE],
                             [key |-> "test_email", value |-> "test@example.com", enabled |-> TRUE],
                             [key |-> "test_password", value |-> "testpassword123", enabled |-> TRUE]>>]],
    [key |-> "production",
     value |-> [id |-> generate_uuid(e2),
                name |-> "Production Environment",
                values |-> <<[key |-> "base_url", value |-> "https://your-production-url.com", enabled |-> TRUE],
                             [key |-> "auth_token", value |-> generate_uuid(e2), enabled |-> TRUE]>>]]>>

\* The dict of environments, as the sequence of its items in insertion order.
create_test_environments(e1, e2) ==
  <<[key |-> "development",
     value |-> [id |-> generate_uuid(e1),
                name |-> "Development Environment",
                values |-> <<[key |-> "base_url", value |-> "http://localhost:3000", enabled |-> TRUE],
                             [key |-> "auth_token", value |-> "", enabled |-> TRUE],
                             [key |-> "test_email", value |-> "test@example.com", enabled |-> TRUE],
                             [key |-> "test_password", value |-> "testpassword123", enabled |-> TRUE]>>]],
    [key |-> "production",
     value |-> [id |-> generate_uuid(e2),
                name |-> "Production Environment",
                values |-> <<[key |-> "base_url", value |-> "https://your-production-url.com", enabled |-> TRUE],
                             [key |-> "auth_token", value |-> "", enabled |-> TRUE]>>]]>>

\* The README text, by its title line.
generate_readme == "# Component Store API - Postman Collection"

(***************************************************************************)
(* The clock and the file names of main.                                   *)
(***************************************************************************)
\* datetime.now().strftime("%Y%m%d_%H%M%S") at instant t of the modelled minute
strftime(t) == "20250101_12000" \o Digits[(t \div TicksPerSecond) + 1]

\* faulty variant of collection_filename_of: the time stamp is left out
collection_filename_NoTimestamp(timestamp) ==
  "component-store-api" \o ".postman_collection.json"

collection_filename_of(timestamp) ==
  "component-store-api_" \o timestamp \o ".postman_collection.json"

\* faulty variant of env_filename_of: env_name is not interpolated
env_filename_NoEnvName(env_name, timestamp) ==
  "component-store-" \o "env" \o "_" \o timestamp \o ".postman_environment.json"

env_filename_of(env_name, timestamp) ==
  "component-store-" \o env_name \o "_" \o timestamp \o ".postman_environment.json"

readme_filename_of(timestamp) ==
  "POSTMAN_README_" \o timestamp \o ".md"

(***************************************************************************)
(* The state of the generator and of its working directory.                *)
(***************************************************************************)
VARIABLES
  now,                  \* the wall clock, in instants of 1/TicksPerSecond s
  entropy,              \* number of uuid4 draws made so far
  disk,                 \* the working directory: file name -> file
  run,                  \* number of processes started so far
  pc,                   \* statement of main the process is at
  collection,           \* locals of main; "", <<>> or Unbound before binding
  environments,
  readme,
  timestamp,
  collection_filename,
  env_index,            \* position of the for loop in environments.items()
  env_filename,
  readme_filename,
  f,                    \* name of the file the open handle refers to, or ""
  calls,                \* per run: how often each composer and the clock ran
  opened,               \* per run: names passed to a successful open, in order
  written,              \* per run: names whose with block ended normally
  stdout,               \* per run: what print has emitted
  stderr,               \* per run: the traceback of the uncaught exception
  exit_status,          \* per run: -1 while running, then the exit status
  history               \* one summary per process that has exited

vars == <<now, entropy, disk, run, pc, collection, environments, readme, timestamp,
          collection_filename, env_index, env_filename, readme_filename, f,
          calls, opened, written, stdout, stderr, exit_status, history>>

locals == <<collection, environments, readme, timestamp, collection_filename,
            env_index, env_filename, readme_filename>>

NoCalls == [create_postman_collection |-> 0, create_test_environments |-> 0,
            generate_readme |-> 0, strftime |-> 0]

NoTraceback == [line |-> 0, filename |-> ""]

Init ==
  /\ now = 0
  /\ entropy = 0
  /\ disk = << >>
  /\ run = 0
  /\ pc = "idle"
  /\ collection = Unbound
  /\ environments = << >>
  /\ readme = ""
  /\ timestamp = ""
  /\ collection_filename = ""
  /\ env_index = 0
  /\ env_filename = ""
  /\ readme_filename = ""
  /\ f = ""
  /\ calls = NoCalls
  /\ opened = << >>
  /\ written = << >>
  /\ stdout = << >>
  /\ stderr = NoTraceback
  /\ exit_status = -1
  /\ history = << >>

(***************************************************************************)
(* Statement order of main.                                                *)
(***************************************************************************)
\* faulty variant of Goto: the collection is written before the other
\* composers run
Goto_WriteCollectionFirst(label) ==
  CASE label = "start" -> "create_postman_collection"
    [] label = "create_postman_collection" -> "timestamp"
    [] label = "timestamp" -> "open_collection"
    [] label = "open_collection" -> "dump_collection"
    [] label = "dump_collection" -> "create_test_environments"
    [] label = "create_test_environments" -> "generate_readme"
    [] label = "generate_readme" -> "env_loop"
    [] label = "env_loop" -> "open_readme"
    [] label = "open_env" -> "dump_env"
    [] label = "dump_env" -> "env_loop"
    [] label = "open_readme" -> "write_readme"
    [] label = "write_readme" -> "print_success"
    [] OTHER -> "exited"

\* faulty variant of Goto: the README is written before the environments
Goto_ReadmeBeforeEnvs(label) ==
  CASE label = "start" -> "create_postman_collection"
    [] label = "create_postman_collection" -> "create_test_environments"
    [] label = "create_test_environments" -> "generate_readme"
    [] label = "generate_readme" -> "timestamp"
    [] label = "timestamp" -> "open_collection"
    [] label = "open_collection" -> "dump_collection"
    [] label = "dump_collection" -> "open_readme"
    [] label = "open_readme" -> "write_readme"
    [] label = "write_readme" -> "env_loop"
    [] label = "open_env" -> "dump_env"
    [] label = "dump_env" -> "env_loop"
    [] label = "env_loop" -> "print_success"
    [] OTHER -> "exited"

\* the statement that follows `label` when no exception is raised; for
\* "env_loop" the statement after the exhausted loop
Goto(label) ==
  CASE label = "start" -> "create_postman_collection"
    [] label = "create_postman_collection" -> "create_test_environments"
    [] label = "create_test_environments" -> "generate_readme"
    [] label = "generate_readme" -> "timestamp"
    [] label = "timestamp" -> "open_collection"
    [] label = "open_collection" -> "dump_collection"
    [] label = "dump_collection" -> "env_loop"
    [] label = "env_loop" -> "open_readme"
    [] label = "open_env" -> "dump_env"
    [] label = "dump_env" -> "env_loop"
    [] label = "open_readme" -> "write_readme"
    [] label = "write_readme" -> "print_success"
    [] OTHER -> "exited"

\* source line of each statement, as a traceback names it
LineOf(label) ==
  CASE label = "create_postman_collection" -> 679
    [] label = "create_test_environments" -> 682
    [] label = "generate_readme" -> 685
    [] label = "timestamp" -> 688
    [] label = "open_collection" -> 692
    [] label = "dump_collection" -> 693
    [] label = "env_loop" -> 696
    [] label = "open_env" -> 698
    [] label = "dump_env" -> 699
    [] label = "open_readme" -> 703
    [] label = "write_readme" -> 704
    [] OTHER -> 706

\* what a run leaves behind; output is the content of the files it has
\* written, as they are when it exits
Summary(status) ==
  [timestamp |-> timestamp, exit_status |-> status,
   collection_filename |-> collection_filename,
   opened |-> opened, written |-> written,
   output |-> [n \in {written[k] : k \in DOMAIN written} |-> disk[n]]]

\* An exception nothing in main catches: the with block, if one is open,
\* closes its handle, the interpreter prints the traceback and exits with 1.
Raise(label, name) ==
  /\ pc' = "exited"
  /\ f' = ""
  /\ stderr' = [line |-> LineOf(label), filename |-> name]
  /\ exit_status' = 1
  /\ history' = Append(history, Summary(1))

(***************************************************************************)
(* The file system, as open(name, 'w') and the writes through the handle   *)
(* see it.  A file is [extent |-> "empty"], or holds all ("full") or a     *)
(* proper prefix ("partial") of the serialization of a document (json) or  *)
(* of a text (text).                                                       *)
(***************************************************************************)
EmptyFile == [extent |-> "empty"]

\* open(name, 'w') succeeds: the file is created or truncated
Open(label, name) ==
  /\ disk' = (name :> EmptyFile) @@ disk
  /\ f' = name
  /\ opened' = Append(opened, name)
  /\ pc' = Goto(label)
  /\ UNCHANGED <<written, stderr, exit_status, history>>

\* variant of OpenRaises with the error caught per artifact: the failure is
\* reported and main goes on after the with block
OpenRaises_Isolated(label, name) ==
  /\ pc' = Goto(Goto(label))
  /\ f' = ""
  /\ stderr' = [line |-> LineOf(label), filename |-> name]
  /\ UNCHANGED <<disk, opened, written, exit_status, history>>

\* open(name, 'w') raises OSError, which carries the file name
OpenRaises(label, name) ==
  /\ Raise(label, name)
  /\ UNCHANGED <<disk, opened, written>>

\* the body of the with block writes `content` and the block closes f
WriteAll(label, content) ==
  /\ disk' = [disk EXCEPT ![f] = content]
  /\ f' = ""
  /\ written' = Append(written, f)
  /\ pc' = Goto(label)
  /\ UNCHANGED <<opened, stderr, exit_status, history>>

\* variant of WriteRaises with the error caught per artifact: the failure is
\* reported and main goes on after the with block
WriteRaises_Isolated(label, partial) ==
  /\ \E reached \in {EmptyFile, partial} : disk' = [disk EXCEPT ![f] = reached]
  /\ pc' = Goto(label)
  /\ f' = ""
  /\ stderr' = [line |-> LineOf(label), filename |-> ""]
  /\ UNCHANGED <<opened, written, exit_status, history>>

\* a write or the flush at close raises OSError (no file name in it) after
\* none or some of the content has reached the file
WriteRaises(label, partial) ==
  /\ \E reached \in {EmptyFile, partial} : disk' = [disk EXCEPT ![f] = reached]
  /\ Raise(label, "")
  /\ UNCHANGED <<opened, written>>

(***************************************************************************)
(* The environment of the process.                                         *)
(***************************************************************************)
\* Time passes.  The process reads the clock at line 688 only, so the
\* instants that matter are those before that statement runs.
Tick ==
  /\ pc \in {"idle", "exited", "timestamp"}
  /\ now < MaxClock
  /\ now' = now + 1
  /\ UNCHANGED <<entropy, disk, run, pc, locals, f, calls, opened, written, stdout,
                 stderr, exit_status, history>>

(***************************************************************************)
(* main, statement by statement.                                           *)
(***************************************************************************)
\* python script.py; line 676
Start ==
  /\ pc \in {"idle", "exited"}
  /\ run < MaxRuns
  /\ run' = run + 1
  /\ pc' = Goto("start")
  /\ collection' = Unbound
  /\ environments' = << >>
  /\ readme' = ""
  /\ timestamp' = ""
  /\ collection_filename' = ""
  /\ env_index' = 0
  /\ env_filename' = ""
  /\ readme_filename' = ""
  /\ f' = ""
  /\ calls' = NoCalls
  /\ opened' = << >>
  /\ written' = << >>
  /\ stdout' = <<"Generando coleccion de Postman para Component Store API...">>
  /\ stderr' = NoTraceback
  /\ exit_status' = -1
  /\ UNCHANGED <<now, entropy, disk, history>>

\* line 679
CreatePostmanCollection ==
  /\ pc = "create_postman_collection"
  /\ collection' = create_postman_collection(entropy + 1)
  /\ entropy' = entropy + 1
  /\ calls' = [calls EXCEPT !.create_postman_collection = @ + 1]
  /\ pc' = Goto(pc)
  /\ UNCHANGED <<now, disk, run, environments, readme, timestamp,
                 collection_filename, env_index, env_filename, readme_filename,
                 f, opened, written, stdout, stderr, exit_status, history>>

\* line 679, the entropy source of uuid4 failing
CreatePostmanCollectionRaises ==
  /\ pc = "create_postman_collection"
  /\ calls' = [calls EXCEPT !.create_postman_collection = @ + 1]
  /\ Raise(pc, "")
  /\ UNCHANGED <<now, entropy, disk, run, locals, opened, written, stdout>>

\* line 682
CreateTestEnvironments ==
  /\ pc = "create_test_environments"
  /\ environments' = create_test_environments(entropy + 1, entropy + 2)
  /\ entropy' = entropy + 2
  /\ calls' = [calls EXCEPT !.create_test_environments = @ + 1]
  /\ pc' = Goto(pc)
  /\ UNCHANGED <<now, disk, run, collection, readme, timestamp,
                 collection_filename, env_index, env_filename, readme_filename,
                 f, opened, written, stdout, stderr, exit_status, history>>

\* line 682, the entropy source of uuid4 failing
CreateTestEnvironmentsRaises ==
  /\ pc = "create_test_environments"
  /\ calls' = [calls EXCEPT !.create_test_environments = @ + 1]
  /\ Raise(pc, "")
  /\ UNCHANGED <<now, entropy, disk, run, locals, opened, written, stdout>>

\* line 685
GenerateReadme ==
  /\ pc = "generate_readme"
  /\ readme' = generate_readme
  /\ calls' = [calls EXCEPT !.generate_readme = @ + 1]
  /\ pc' = Goto(pc)
  /\ UNCHANGED <<now, entropy, disk, run, collection, environments, timestamp,
                 collection_filename, env_index, env_filename, readme_filename,
                 f, opened, written, stdout, stderr, exit_status, history>>

\* line 688
Timestamp ==
  /\ pc = "timestamp"
  /\ timestamp' = strftime(now)
  /\ calls' = [calls EXCEPT !.strftime = @ + 1]
  /\ pc' = Goto(pc)
  /\ UNCHANGED <<now, entropy, disk, run, collection, environments, readme,
                 collection_filename, env_index, env_filename, readme_filename,
                 f, opened, written, stdout, stderr, exit_status, history>>

\* lines 691-692
OpenCollection ==
  /\ pc = "open_collection"
  /\ collection_filename' = collection_filename_of(timestamp)
  /\ Open(pc, collection_filename')
  /\ UNCHANGED <<now, entropy, run, collection, environments, readme, timestamp,
                 env_index, env_filename, readme_filename, calls, stdout>>

OpenCollectionRaises ==
  /\ pc = "open_collection"
  /\ collection_filename' = collection_filename_of(timestamp)
  /\ OpenRaises(pc, collection_filename')
  /\ UNCHANGED <<now, entropy, run, collection, environments, readme, timestamp,
                 env_index, env_filename, readme_filename, calls, stdout>>

\* line 693
DumpCollection ==
  /\ pc = "dump_collection"
  /\ WriteAll(pc, [extent |-> "full", json |-> collection])
  /\ UNCHANGED <<now, entropy, run, locals, calls, stdout>>

DumpCollectionRaises ==
  /\ pc = "dump_collection"
  /\ WriteRaises(pc, [extent |-> "partial", json |-> collection])
  /\ UNCHANGED <<now, entropy, run, locals, calls, stdout>>

\* line 696, the next item of environments.items()
EnvLoopNext ==
  /\ pc = "env_loop"
  /\ env_index < Len(environments)
  /\ env_index' = env_index + 1
  /\ pc' = "open_env"
  /\ UNCHANGED <<now, entropy, disk, run, collection, environments, readme, timestamp,
                 collection_filename, env_filename, readme_filename, f, calls,
                 opened, written, stdout, stderr, exit_status, history>>

\* line 696, the items are exhausted
EnvLoopDone ==
  /\ pc = "env_loop"
  /\ env_index >= Len(environments)
  /\ pc' = Goto(pc)
  /\ UNCHANGED <<now, entropy, disk, run, locals, f, calls, opened, written, stdout,
                 stderr, exit_status, history>>

\* lines 697-698
OpenEnv ==
  /\ pc = "open_env"
  /\ env_filename' = env_filename_of(environments[env_index].key, timestamp)
  /\ Open(pc, env_filename')
  /\ UNCHANGED <<now, entropy, run, collection, environments, readme, timestamp,
                 collection_filename, env_index, readme_filename, calls, stdout>>

OpenEnvRaises ==
  /\ pc = "open_env"
  /\ env_filename' = env_filename_of(environments[env_index].key, timestamp)
  /\ OpenRaises(pc, env_filename')
  /\ UNCHANGED <<now, entropy, run, collection, environments, readme, timestamp,
                 collection_filename, env_index, readme_filename, calls, stdout>>

\* line 699
DumpEnv ==
  /\ pc = "dump_env"
  /\ WriteAll(pc, [extent |-> "full", json |-> environments[env_index].value])
  /\ UNCHANGED <<now, entropy, run, locals, calls, stdout>>

DumpEnvRaises ==
  /\ pc = "dump_env"
  /\ WriteRaises(pc, [extent |-> "partial", json |-> environments[env_index].value])
  /\ UNCHANGED <<now, entropy, run, locals, calls, stdout>>

\* lines 702-703
OpenReadme ==
  /\ pc = "open_readme"
  /\ readme_filename' = readme_filename_of(timestamp)
  /\ Open(pc, readme_filename')
  /\ UNCHANGED <<now, entropy, run, collection, environments, readme, timestamp,
                 collection_filename, env_index, env_filename, calls, stdout>>

OpenReadmeRaises ==
  /\ pc = "open_readme"
  /\ readme_filename' = readme_filename_of(timestamp)
  /\ OpenRaises(pc, readme_filename')
  /\ UNCHANGED <<now, entropy, run, collection, environments, readme, timestamp,
                 collection_filename, env_index, env_filename, calls, stdout>>

\* line 704
WriteReadme ==
  /\ pc = "write_readme"
  /\ WriteAll(pc, [extent |-> "full", text |-> readme])
  /\ UNCHANGED <<now, entropy, run, locals, calls, stdout>>

WriteReadmeRaises ==
  /\ pc = "write_readme"
  /\ WriteRaises(pc, [extent |-> "partial", text |-> readme])
  /\ UNCHANGED <<now, entropy, run, locals, calls, stdout>>

\* lines 706-710 (the fixed instructions of lines 711-724 follow), then the
\* process exits with status 0
PrintSuccess ==
  /\ pc = "print_success"
  /\ stdout' = stdout \o
       <<"Archivos generados exitosamente:",
         "Coleccion: " \o collection_filename,
         "Entorno Development: component-store-development_" \o timestamp
            \o ".postman_environment.json",
         "Entorno Production: component-store-production_" \o timestamp
            \o ".postman_environment.json",
         "README: " \o readme_filename>>
  /\ pc' = "exited"
  /\ exit_status' = 0
  /\ history' = Append(history, Summary(0))
  /\ UNCHANGED <<now, entropy, disk, run, locals, f, calls, opened, written, stderr>>

Next ==
  \/ Tick
  \/ Start
  \/ CreatePostmanCollection
  \/ CreatePostmanCollectionRaises
  \/ CreateTestEnvironments
  \/ CreateTestEnvironmentsRaises
  \/ GenerateReadme
  \/ Timestamp
  \/ OpenCollection
  \/ OpenCollectionRaises
  \/ DumpCollection
  \/ DumpCollectionRaises
  \/ EnvLoopNext
  \/ EnvLoopDone
  \/ OpenEnv
  \/ OpenEnvRaises
  \/ DumpEnv
  \/ DumpEnvRaises
  \/ OpenReadme
  \/ OpenReadmeRaises
  \/ WriteReadme
  \/ WriteReadmeRaises
  \/ PrintSuccess

Spec == Init /\ [][Next]_vars

(***************************************************************************)
(* Auxiliary operators of the properties.                                  *)
(***************************************************************************)
Range(s) == {s[i] : i \in DOMAIN s}

RECURSIVE Join(_, _)
Join(parts, sep) ==
  IF Len(parts) = 0 THEN ""
  ELSE IF Len(parts) = 1 THEN parts[1]
  ELSE parts[1] \o sep \o Join(Tail(parts), sep)

QueryString(query) ==
  Join([i \in DOMAIN query |-> query[i].key \o "=" \o query[i].value], "&")

\* the raw URL rebuilt from the parts of a url object
RebuiltRaw(url) ==
  "{{base_url}}" \o "/" \o Join(url.path, "/")
    \o (IF "query" \in DOMAIN url THEN "?" \o QueryString(url.query) ELSE "")

CollectionBound == "info" \in DOMAIN collection

\* positions <<folder, request>> of the request descriptors of a collection
Positions(c) ==
  UNION {{<<i, j>> : j \in DOMAIN c.item[i].item} : i \in DOMAIN c.item}

RequestAt(c, p) == c.item[p[1]].item[p[2]]

Keys(values) == {values[i].key : i \in DOMAIN values}

EnvironmentsBound == Len(environments) > 0

EnvNamed(name) ==
  (CHOOSE i \in DOMAIN environments : environments[i].key = name)

EnvValues(name) == environments[EnvNamed(name)].value.values

TestCredentials == {"test_email", "test_password"}

\* the time stamps strftime can produce within the modelled instants
Timestamps == {strftime(t) : t \in 0..MaxClock}

\* of the three name templates of main only the environment one can hold
\* the word "production", and only through env_name
ProductionNames == {env_filename_of("production", ts) : ts \in Timestamps}

(***************************************************************************)
(* C1: in every request descriptor of the four folders of the collection,  *)
(* url.raw is, character for character, '{{base_url}}' then '/' then the   *)
(* path segments joined with '/' then, only when a query list is present,  *)
(* '?' and the parameters as key=value in declared order joined with '&'.  *)
(***************************************************************************)
C1_RawUrlIsJoinOfParts ==
  CollectionBound =>
    /\ Len(collection.item) = 4
    /\ \A p \in Positions(collection) :
         LET url == RequestAt(collection, p).request.url
         IN  /\ url.host = <<"{{base_url}}">>
             /\ url.raw = RebuiltRaw(url)

\* the collection is built and holds requests with and without a query, the
\* one with the empty path segment among them
C1_Witness ==
  /\ CollectionBound
  /\ \E p \in Positions(collection) :
       LET url == RequestAt(collection, p).request.url
       IN  "query" \in DOMAIN url /\ Len(url.query) = 5
  /\ \E p \in Positions(collection) :
       RequestAt(collection, p).request.url.path = <<"">>

(***************************************************************************)
(* C2: the four folders partition the request descriptors: no display name *)
(* occurs at two positions of the collection, in one folder or in two, and *)
(* collection['item'] is exactly the four folders of the four composers,   *)
(* each once, so every descriptor of a folder composer is in the           *)
(* collection.                                                             *)
(***************************************************************************)
C2_FoldersPartitionRequests ==
  CollectionBound =>
    /\ \A p, q \in Positions(collection) :
         RequestAt(collection, p).name = RequestAt(collection, q).name => p = q
    /\ collection.item = <<create_auth_folder, create_components_folder,
                           create_payments_folder, create_utility_folder>>
    /\ Cardinality(Positions(collection)) =
         Len(create_auth_folder.item) + Len(create_components_folder.item)
           + Len(create_payments_folder.item) + Len(create_utility_folder.item)
    /\ Cardinality({collection.item[i].name : i \in DOMAIN collection.item}) = 4

\* the collection is built with its sixteen descriptors
C2_Witness ==
  /\ CollectionBound
  /\ Cardinality(Positions(collection)) = 16
  /\ Cardinality({RequestAt(collection, p).name : p \in Positions(collection)}) = 16

(***************************************************************************)
(* C3: the keys of the production environment are a strict subset of the   *)
(* keys of the development environment and hold neither test_email nor     *)
(* test_password; and no file in the working directory whose name contains *)
(* 'production' holds a variable with one of these two keys.               *)
(***************************************************************************)
C3_ProductionHasNoTestCredentials ==
  /\ EnvironmentsBound =>
       /\ Keys(EnvValues("production")) \subseteq Keys(EnvValues("development"))
       /\ Keys(EnvValues("production")) # Keys(EnvValues("development"))
       /\ Keys(EnvValues("production")) \cap TestCredentials = {}
  /\ \A n \in DOMAIN disk \cap ProductionNames :
       "json" \in DOMAIN disk[n] =>
         /\ "values" \in DOMAIN disk[n].json
         /\ Keys(disk[n].json.values) \cap TestCredentials = {}

\* the production environment has been written in full, next to a
\* development file that does carry the test credentials
C3_Witness ==
  /\ EnvironmentsBound
  /\ \E ts \in Timestamps :
       /\ env_filename_of("production", ts) \in Range(written)
       /\ disk[env_filename_of("production", ts)].extent = "full"
       /\ env_filename_of("development", ts) \in Range(written)
       /\ TestCredentials \subseteq
            Keys(disk[env_filename_of("development", ts)].json.values)

(***************************************************************************)
(* C4: the auth block of the collection is of type 'bearer' with a 'token' *)
(* parameter whose value is the reference {{auth_token}}, auth_token is a  *)
(* declared collection variable, and a request of the Authentication       *)
(* folder has an event with listen = 'test' whose script sets the          *)
(* collection variable of that very name.                                  *)
(***************************************************************************)
Reference(variable) == "{{" \o variable \o "}}"

SetsCollectionVariable(line, variable) ==
  line = "    pm.collectionVariables.set('" \o variable \o "', response.token);"

C4_AuthTokenWrittenByAuthenticationFolder ==
  CollectionBound =>
    /\ collection.auth.type = "bearer"
    /\ \E i \in DOMAIN collection.auth.bearer :
         /\ collection.auth.bearer[i].key = "token"
         /\ collection.auth.bearer[i].value = Reference("auth_token")
    /\ "auth_token" \in Keys(collection.variable)
    /\ \E k \in DOMAIN collection.item :
         /\ collection.item[k].name = "Authentication"
         /\ \E j \in DOMAIN collection.item[k].item :
              LET r == collection.item[k].item[j]
              IN  /\ "event" \in DOMAIN r
                  /\ \E e \in DOMAIN r.event :
                       /\ r.event[e].listen = "test"
                       /\ \E l \in DOMAIN r.event[e].script.exec :
                            SetsCollectionVariable(r.event[e].script.exec[l], "auth_token")

\* the collection has reached the disk in full with its auth block
C4_Witness ==
  /\ CollectionBound
  /\ collection_filename \in Range(written)
  /\ disk[collection_filename].extent = "full"
  /\ disk[collection_filename].json.auth.type = "bearer"

(***************************************************************************)
(* Auxiliary operators of the properties about main.                       *)
(***************************************************************************)
Exited == pc = "exited"

BuildLines ==
  {LineOf("create_postman_collection"), LineOf("create_test_environments"),
   LineOf("generate_readme")}

OpenLines == {LineOf("open_collection"), LineOf("open_env"), LineOf("open_readme")}

WriteLines == {LineOf("dump_collection"), LineOf("dump_env"), LineOf("write_readme")}

\* the process has ended by an exception raised while opening or writing
FileFailure == Exited /\ stderr.line \in OpenLines \cup WriteLines

\* the process has ended by an exception raised by a composer
BuildFailure == Exited /\ stderr.line \in BuildLines

\* the four artifacts of a run with time stamp ts, in the order of main
ArtifactOrder(ts) ==
  <<collection_filename_of(ts), env_filename_of("development", ts),
    env_filename_of("production", ts), readme_filename_of(ts)>>

\* the artifact whose open or write raised
FailedArtifact ==
  IF stderr.line \in OpenLines THEN stderr.filename ELSE opened[Len(opened)]

SuccessMessage == "Archivos generados exitosamente:"

(***************************************************************************)
(* C5, as claimed: when the open or the write of one artifact fails, the   *)
(* writes of all other artifacts of the run are performed, the earlier     *)
(* and the later ones.                                                     *)
(***************************************************************************)
C5_Original_OtherWritesPerformed ==
  FileFailure =>
    \A n \in Range(ArtifactOrder(timestamp)) \ {FailedArtifact} :
      n \in Range(written)

(***************************************************************************)
(* C5, amended: when the open or the write of one artifact fails, the      *)
(* artifacts written before it stay on disk in full, the failing artifact  *)
(* is the next in the order of main, and no later artifact is opened.      *)
(***************************************************************************)
C5_FailureKeepsEarlierStopsLater ==
  FileFailure =>
    /\ Len(written) < 4
    /\ written = SubSeq(ArtifactOrder(timestamp), 1, Len(written))
    /\ FailedArtifact = ArtifactOrder(timestamp)[Len(written) + 1]
    /\ \A n \in Range(written) : n \in DOMAIN disk /\ disk[n].extent = "full"
    /\ Range(opened) \subseteq Range(written) \cup {FailedArtifact}

\* the development environment failed to open after the collection was
\* written: one artifact is on disk, two later ones were never opened
C5_Witness ==
  /\ FileFailure
  /\ stderr.line = LineOf("open_env")
  /\ written = <<collection_filename>>
  /\ disk[collection_filename].extent = "full"
  /\ readme_filename_of(timestamp) \notin DOMAIN disk

(***************************************************************************)
(* C6: when a composer raises, main has opened no output file; an output   *)
(* file is opened only after all three composers have returned.            *)
(***************************************************************************)
C6_BuildErrorBeforeAnyOutput ==
  /\ BuildFailure => opened = << >> /\ written = << >> /\ f = ""
  /\ opened # << >> =>
       /\ CollectionBound
       /\ EnvironmentsBound
       /\ readme # ""

\* create_test_environments raised after the collection was built
C6_Witness ==
  /\ BuildFailure
  /\ stderr.line = LineOf("create_test_environments")
  /\ CollectionBound
  /\ opened = << >>
  /\ exit_status = 1

(***************************************************************************)
(* C7, as claimed: whenever main has terminated, every file of the working *)
(* directory holds the complete serialized content of its document; none   *)
(* is left empty or truncated.                                             *)
(***************************************************************************)
C7_Original_FullOrAbsent ==
  Exited => \A n \in DOMAIN disk : disk[n].extent = "full"

(***************************************************************************)
(* C8, as claimed: after a failure while opening or writing an output      *)
(* file the exit status is not zero, the report identifies the artifact    *)
(* that failed, and the success message is not printed.                    *)
(***************************************************************************)
\* the artifacts whose with statement has a statement at source line l
ArtifactsAtLine(l) ==
  {a \in {"collection", "development", "production", "readme"} :
     \/ a = "collection" /\ l \in {LineOf("open_collection"), LineOf("dump_collection")}
     \/ a \in {"development", "production"} /\ l \in {LineOf("open_env"), LineOf("dump_env")}
     \/ a = "readme" /\ l \in {LineOf("open_readme"), LineOf("write_readme")}}

ReportIdentifiesArtifact ==
  \/ stderr.filename = FailedArtifact
  \/ Cardinality(ArtifactsAtLine(stderr.line)) = 1

C8_Original_FailureReported ==
  FileFailure =>
    /\ exit_status # 0
    /\ ReportIdentifiesArtifact
    /\ SuccessMessage \notin Range(stdout)

(***************************************************************************)
(* C9: in a run of main that ends with success each composer has been      *)
(* called exactly once, the time stamp has been computed once and is the   *)
(* one in all file names, and exactly four files with pairwise distinct    *)
(* names have been written: the collection, the development and the        *)
(* production environment and the README, each holding the structure its   *)
(* own composer returned.                                                  *)
(***************************************************************************)
Succeeded == Exited /\ exit_status = 0

C9_OneCallOneTimestampFourFiles ==
  Succeeded =>
    /\ calls = [create_postman_collection |-> 1, create_test_environments |-> 1,
                generate_readme |-> 1, strftime |-> 1]
    /\ timestamp \in Timestamps
    /\ Len(written) = 4
    /\ Cardinality(Range(written)) = 4
    /\ opened = written
    /\ written[1] = "component-store-api_" \o timestamp \o ".postman_collection.json"
    /\ written[2] = "component-store-development_" \o timestamp \o ".postman_environment.json"
    /\ written[3] = "component-store-production_" \o timestamp \o ".postman_environment.json"
    /\ written[4] = "POSTMAN_README_" \o timestamp \o ".md"
    /\ written[1] \in DOMAIN disk /\ written[2] \in DOMAIN disk
    /\ written[3] \in DOMAIN disk /\ written[4] \in DOMAIN disk
    /\ disk[written[1]] = [extent |-> "full", json |-> collection]
    /\ disk[written[2]] = [extent |-> "full", json |-> environments[EnvNamed("development")].value]
    /\ disk[written[3]] = [extent |-> "full", json |-> environments[EnvNamed("production")].value]
    /\ disk[written[4]] = [extent |-> "full", text |-> readme]

\* a second run has ended with success in the directory of an earlier run
C9_Witness ==
  /\ Succeeded
  /\ run = 2
  /\ Len(written) = 4
  /\ SuccessMessage \in Range(stdout)

(***************************************************************************)
(* C10: two runs that computed different time stamps and wrote their       *)
(* collection have written it to files of different names; the collection  *)
(* documents of any two such files agree in 'item', in 'variable' and in   *)
(* every other part except info._postman_id.                               *)
(***************************************************************************)
\* the runs that have exited after writing their collection file
CollectionRuns ==
  {i \in DOMAIN history :
     history[i].collection_filename \in Range(history[i].written)}

SameButIdentifier(c, d) ==
  /\ c.item = d.item
  /\ c.variable = d.variable
  /\ c.auth = d.auth
  /\ [c.info EXCEPT !._postman_id = ""] = [d.info EXCEPT !._postman_id = ""]

C10_RunsDifferInNameAndIdentifierOnly ==
  \A i, j \in CollectionRuns :
    history[i].timestamp # history[j].timestamp =>
      LET n == history[i].collection_filename
          m == history[j].collection_filename
      IN  /\ n # m
          /\ n \in DOMAIN disk /\ m \in DOMAIN disk
          /\ (disk[n].extent = "full" /\ disk[m].extent = "full") =>
               SameButIdentifier(disk[n].json, disk[m].json)

\* two runs with different time stamps have left their collection files,
\* which differ in the identifier
C10_Witness ==
  \E i, j \in CollectionRuns :
    /\ history[i].timestamp # history[j].timestamp
    /\ disk[history[i].collection_filename].extent = "full"
    /\ disk[history[j].collection_filename].extent = "full"
    /\ disk[history[i].collection_filename].json.info._postman_id
         # disk[history[j].collection_filename].json.info._postman_id
    /\ disk[history[i].collection_filename].json.item
         = disk[history[j].collection_filename].json.item

(***************************************************************************)
(* Auxiliary operators of the properties about pairs of runs.              *)
(***************************************************************************)
\* pairs of runs that have exited, the earlier first
RunPairs == {p \in (DOMAIN history) \X (DOMAIN history) : p[1] < p[2]}

RunSucceeded(i) == history[i].exit_status = 0

\* two files agree in all but the identifier of the document they hold
SameButIds(a, b) ==
  /\ a.extent = b.extent
  /\ DOMAIN a = DOMAIN b
  /\ "text" \in DOMAIN a => a.text = b.text
  /\ "json" \in DOMAIN a =>
       /\ DOMAIN a.json = DOMAIN b.json
       /\ "info" \in DOMAIN a.json => SameButIdentifier(a.json, b.json)
       /\ "id" \in DOMAIN a.json =>
            [a.json EXCEPT !.id = ""] = [b.json EXCEPT !.id = ""]

(***************************************************************************)
(* C11, as claimed: two successful runs with the same time stamp have      *)
(* written files of the same names and, name by name, of identical         *)
(* content.                                                                *)
(***************************************************************************)
C11_Original_SameTimestampSameBytes ==
  \A p \in RunPairs :
    (/\ RunSucceeded(p[1]) /\ RunSucceeded(p[2])
     /\ history[p[1]].timestamp = history[p[2]].timestamp) =>
      /\ history[p[1]].written = history[p[2]].written
      /\ history[p[1]].output = history[p[2]].output

(***************************************************************************)
(* C11, amended: two runs with the same time stamp use the same file       *)
(* names, and every artifact both have written is identical in the two     *)
(* runs except for the identifiers drawn per run (info._postman_id of the  *)
(* collection, id of each environment); the README is identical.           *)
(***************************************************************************)
C11_SameTimestampSameButIdentifiers ==
  \A p \in RunPairs :
    LET a == history[p[1]]
        b == history[p[2]]
    IN  (a.timestamp = b.timestamp /\ a.timestamp # "") =>
          /\ \A k \in DOMAIN a.opened \cap DOMAIN b.opened : a.opened[k] = b.opened[k]
          /\ (RunSucceeded(p[1]) /\ RunSucceeded(p[2])) => a.written = b.written
          /\ \A n \in DOMAIN a.output \cap DOMAIN b.output :
               SameButIds(a.output[n], b.output[n])

\* two successful runs in the same second: four files each, the README the
\* same, the collection and the environments with other identifiers
C11_Witness ==
  \E p \in RunPairs :
    LET a == history[p[1]]
        b == history[p[2]]
    IN  /\ RunSucceeded(p[1]) /\ RunSucceeded(p[2])
        /\ a.timestamp = b.timestamp
        /\ Len(a.written) = 4 /\ a.written = b.written
        /\ a.output[a.written[4]] = b.output[b.written[4]]
        /\ a.output[a.written[1]] # b.output[b.written[1]]
        /\ a.output[a.written[2]].json.id # b.output[b.written[2]].json.id

(***************************************************************************)
(* C12, as claimed: of any two runs of main in the same directory the      *)
(* later opens no file name the earlier has opened, so that no artifact of *)
(* the earlier run is overwritten.                                         *)
(***************************************************************************)
C12_Original_NamesUniqueAcrossRuns ==
  \A p \in RunPairs :
    Range(history[p[1]].opened) \cap Range(history[p[2]].opened) = {}

(***************************************************************************)
(* C13: a run of main ends either with all four files written or, by an    *)
(* error, with at most one file opened and not written: the failing one    *)
(* is the last file the run has opened, and every file written before the  *)
(* failure is on disk with the content it was given.                       *)
(***************************************************************************)
\* the content main gives to the k-th file it writes
ContentOf(k) ==
  CASE k = 1 -> [extent |-> "full", json |-> collection]
    [] k = 2 -> [extent |-> "full", json |-> environments[1].value]
    [] k = 3 -> [extent |-> "full", json |-> environments[2].value]
    [] OTHER -> [extent |-> "full", text |-> readme]

C13_AllWrittenOrOneInterrupted ==
  /\ Len(opened) <= Len(written) + 1
  /\ written = SubSeq(opened, 1, Len(written))
  /\ Exited =>
       /\ \/ exit_status = 0 /\ Len(written) = 4 /\ opened = written
          \/ exit_status = 1 /\ Len(written) < 4
       /\ \A k \in DOMAIN written :
            written[k] \in DOMAIN disk /\ disk[written[k]] = ContentOf(k)
  /\ \A i \in DOMAIN history :
       /\ Len(history[i].opened) <= Len(history[i].written) + 1
       /\ history[i].exit_status = 0 <=> Len(history[i].written) = 4

\* the write of the production environment failed part-way: two files are
\* complete, the third is truncated, the README was never opened
C13_Witness ==
  /\ Exited
  /\ exit_status = 1
  /\ stderr.line = LineOf("dump_env")
  /\ Len(written) = 2
  /\ Len(opened) = 3
  /\ disk[opened[3]].extent = "partial"
  /\ disk[written[2]] = ContentOf(2)
  /\ readme_filename = ""

(***************************************************************************)
(* C14: main opens its files in the order collection, development          *)
(* environment, production environment, README; when it opens a file, the  *)
(* handle of the one before is closed; the success message is printed      *)
(* only after all four writes have completed, and every file name in it    *)
(* is the name of a file written in this run.                              *)
(***************************************************************************)
NamesInOrder ==
  <<"component-store-api_" \o timestamp \o ".postman_collection.json",
    "component-store-development_" \o timestamp \o ".postman_environment.json",
    "component-store-production_" \o timestamp \o ".postman_environment.json",
    "POSTMAN_README_" \o timestamp \o ".md">>

C14_OrderedWritesThenMessage ==
  /\ Len(opened) <= 4
  /\ \A k \in DOMAIN opened : opened[k] = NamesInOrder[k]
  /\ pc \in {"open_collection", "open_env", "open_readme"} =>
       f = "" /\ opened = written
  /\ f # "" => Len(opened) = Len(written) + 1 /\ f = opened[Len(opened)]
  /\ SuccessMessage \in Range(stdout) =>
       /\ Len(written) = 4
       /\ Len(stdout) = 6
       /\ stdout[2] = SuccessMessage
       /\ stdout[3] = "Coleccion: " \o written[1]
       /\ stdout[4] = "Entorno Development: " \o written[2]
       /\ stdout[5] = "Entorno Production: " \o written[3]
       /\ stdout[6] = "README: " \o written[4]
       /\ \A k \in DOMAIN written : disk[written[k]].extent = "full"

\* the success message has been printed after the four writes
C14_Witness ==
  /\ Succeeded
  /\ SuccessMessage \in Range(stdout)
  /\ Len(written) = 4
  /\ stdout[5] = "Entorno Production: " \o written[3]
  /\ f = ""

====
